---- MODULE Spec2Model ----
(***************************************************************************)
(* FitSync notification service: the in-memory notification store, the     *)
(* seven event handlers subscribed on the pub/sub channels, the contact    *)
(* resolver they await, and the four HTTP operations over the store.       *)
(*                                                                         *)
(* The process is one single-threaded event loop.  A handler runs from its *)
(* invocation to its first await without interruption; an await of a       *)
(* resolver call suspends it until the remote answer (or the timeout)      *)
(* comes back in a later macrotask; an await of the mocked sendEmail       *)
(* suspends it for a microtask turn, and microtasks run first-in first-out *)
(* before any other macrotask (an HTTP request, a resolver answer).        *)
(***************************************************************************)
EXTENDS Integers, Sequences, FiniteSets, TLC

\* Largest value of Date.now() (milliseconds) the model lets the clock reach.
MaxClock == 1
\* Largest number of events delivered to handlers.
MaxEvents == 2
\* Largest number of events delivered in the store-centred specification.
MaxStoreEvents == 3

VARIABLES
    now,            \* Date.now(): the wall clock, in milliseconds
    notifications,  \* the Map userId -> array of notification records
    invocations,    \* handler invocations, in the order the events arrived
    microtasks,     \* FIFO of invocations whose `await sendEmail` has resolved
    appendLog,      \* history: every storeNotification call, in call order
    deletes         \* history: userId -> number of successful deletes

vars == <<now, notifications, invocations, microtasks, appendLog, deletes>>

----------------------------------------------------------------------------
(* JavaScript values.  A value carries its type, so that === (equality of  *)
(* the tagged values) tells the string "1" from undefined and from null.   *)

Undefined == [t |-> "undefined"]
Null == [t |-> "null"]
Str(s) == [t |-> "string", v |-> s]
Date(ms) == [t |-> "date", ms |-> ms]
Obj(fields) == [t |-> "object", fields |-> fields]

\* !x
Falsy(x) == x = Undefined \/ x = Null \/ x = Str("")

\* `${x}`: the string a template literal interpolates for x
TemplateString(x) ==
    CASE x.t = "string" -> x.v
      [] x.t = "undefined" -> "undefined"
      [] x.t = "null" -> "null"
      [] OTHER -> "[object Object]"

\* a || b
OrElse(a, b) == IF Falsy(a) THEN b ELSE a

\* obj.f, and the destructuring const { f } = obj: undefined when f is absent
Field(obj, f) == IF f \in DOMAIN obj THEN obj[f] ELSE Undefined

\* { ...a, ...b }: the keys of b override those of a
Spread(a, b) == b @@ a

----------------------------------------------------------------------------
(* The contact resolver (utils/httpClient).  A remote call ends in one of  *)
(* the outcomes below; `data` is the data field of a 2xx response body.    *)

RemoteFailures == {"timeout", "network", "http4xx", "http5xx", "nobody"}

\* The answers the user service can give for GET /api/users/{userId}.
UserResponses(userId) ==
    { [kind |-> "http2xx",
       data |-> Obj([id |-> userId,
                     email |-> Str(TemplateString(userId) \o "@fitsync.com"),
                     first_name |-> Str("Sam")])],
      [kind |-> "http2xx", data |-> Undefined] }
    \cup { [kind |-> k, data |-> Undefined] : k \in RemoteFailures }

\* The answers the training service can give for GET /api/programs/{programId}.
ProgramResponses(programId) ==
    { [kind |-> "http2xx", data |-> Obj([id |-> programId, name |-> Str("Strength")])],
      [kind |-> "http2xx", data |-> Obj([id |-> programId, name |-> Str("")])],
      [kind |-> "http2xx", data |-> Obj([id |-> programId])],
      [kind |-> "http2xx", data |-> Undefined] }
    \cup { [kind |-> k, data |-> Undefined] : k \in RemoteFailures }

\* The answers the schedule service can give for GET /api/bookings/{bookingId}.
BookingResponses(bookingId) ==
    { [kind |-> "http2xx", data |-> Obj([id |-> bookingId, status |-> Str("booked")])],
      [kind |-> "http2xx", data |-> Undefined] }
    \cup { [kind |-> k, data |-> Undefined] : k \in RemoteFailures }

\* An array value.
Arr(items) == [t |-> "array", items |-> items]

\* The answers the user service can give for POST /api/users/batch.
BatchResponses(userIds) ==
    { [kind |-> "http2xx",
       data |-> Arr([k \in 1..Len(userIds) |-> Obj([id |-> userIds[k]])])],
      [kind |-> "http2xx", data |-> Arr(<<>>)],
      [kind |-> "http2xx", data |-> Undefined] }
    \cup { [kind |-> k, data |-> Undefined] : k \in RemoteFailures }

\* How the evaluation of a piece of code ends: it returns a value, or it
\* throws an error.
Return(v) == [completion |-> "return", value |-> v]
Throw(e) == [completion |-> "throw", value |-> [t |-> "error", v |-> e]]

\* await client.get(url) / client.post(url, body): axios resolves with the
\* response on a 2xx status and rejects on a timeout, a connection failure
\* and any other status.
AxiosRequest(response) ==
    IF response.kind \in {"http2xx", "nobody"}
    THEN Return(response)
    ELSE Throw(response.kind)

\* response.data.data: raises a TypeError when the 2xx response has no body
ResponseDataData(response) ==
    IF response.kind = "nobody"
    THEN Throw("TypeError")
    ELSE Return(response.data)

\* Variant: the body of the function without its try/catch.
TryRequest_noCatch(response, fallback) ==
    IF AxiosRequest(response).completion = "throw"
    THEN AxiosRequest(response)
    ELSE ResponseDataData(response)

\* try { const response = await ...; return response.data.data }
\* catch (error) { logger.error(...); return fallback }
TryRequest(response, fallback) ==
    LET tried == IF AxiosRequest(response).completion = "throw"
                 THEN AxiosRequest(response)
                 ELSE ResponseDataData(response)
    IN  IF tried.completion = "throw" THEN Return(fallback) ELSE tried

getUserContact(response) ==
    TryRequest(response, Null).value

getUsersBatch(response) ==
    TryRequest(response, Arr(<<>>)).value

getProgramDetails(response) ==
    TryRequest(response, Null).value

getBookingDetails(response) ==
    TryRequest(response, Null).value

----------------------------------------------------------------------------
(* The notification store.                                                 *)

\* notifications.get(userId) || []
GetOrEmpty(store, userId) ==
    IF userId \in DOMAIN store THEN store[userId] ELSE <<>>

\* Variant: the record is put at the front of the list (unshift for push).
storeNotification_unshift(store, userId, notification, t) ==
    LET withList == IF userId \in DOMAIN store
                    THEN store
                    ELSE (userId :> <<>>) @@ store
        record == Spread(Spread([id |-> Str(ToString(t))], notification),
                         [read_at |-> Null, created_at |-> Date(t)])
    IN  [withList EXCEPT ![userId] = <<record>> \o @]

\* Variant: the record is pushed onto every list of the store as well.
storeNotification_everyList(store, userId, notification, t) ==
    LET withList == IF userId \in DOMAIN store
                    THEN store
                    ELSE (userId :> <<>>) @@ store
        record == Spread(Spread([id |-> Str(ToString(t))], notification),
                         [read_at |-> Null, created_at |-> Date(t)])
    IN  [u \in DOMAIN withList |-> Append(withList[u], record)]

\* Variant: the new record takes the read_at of the record it is put behind.
storeNotification_inheritsRead(store, userId, notification, t) ==
    LET withList == IF userId \in DOMAIN store
                    THEN store
                    ELSE (userId :> <<>>) @@ store
        list == withList[userId]
        record == Spread(Spread([id |-> Str(ToString(t))], notification),
                         [read_at |-> IF list = <<>> THEN Null
                                      ELSE list[Len(list)].read_at,
                          created_at |-> Date(t)])
    IN  [withList EXCEPT ![userId] = Append(@, record)]

\* Variant: the push makes every record of the list unread again.
storeNotification_resetsRead(store, userId, notification, t) ==
    LET withList == IF userId \in DOMAIN store
                    THEN store
                    ELSE (userId :> <<>>) @@ store
        record == Spread(Spread([id |-> Str(ToString(t))], notification),
                         [read_at |-> Null, created_at |-> Date(t)])
    IN  [withList EXCEPT ![userId] =
            Append([k \in 1..Len(@) |-> [@[k] EXCEPT !.read_at = Null]], record)]

\* Variant: the draft is spread last ({ id, read_at, created_at, ...notification }).
storeNotification_draftLast(store, userId, notification, t) ==
    LET withList == IF userId \in DOMAIN store
                    THEN store
                    ELSE (userId :> <<>>) @@ store
        record == Spread([id |-> Str(ToString(t)),
                          read_at |-> Null, created_at |-> Date(t)],
                         notification)
    IN  [withList EXCEPT ![userId] = Append(@, record)]

\* storeNotification(userId, notification) at clock reading t.  (Date.now()
\* for the id and new Date() for created_at are read back to back: one t.)
storeNotification(store, userId, notification, t) ==
    LET withList == IF userId \in DOMAIN store
                    THEN store
                    ELSE (userId :> <<>>) @@ store
        record == Spread(Spread([id |-> Str(ToString(t))], notification),
                         [read_at |-> Null, created_at |-> Date(t)])
    IN  [withList EXCEPT ![userId] = Append(@, record)]

\* The value of the call storeNotification(userId, notification): the
\* function ends without a return statement.
storeNotificationResult(store, userId, notification, t) ==
    Undefined

\* Variant: the last entry with the id is found (findLastIndex).
FindIndex_last(list, id) ==
    IF \E k \in 1..Len(list) : list[k].id = id
    THEN CHOOSE k \in 1..Len(list) :
            /\ list[k].id = id
            /\ \A j \in (k + 1)..Len(list) : list[j].id # id
    ELSE 0

\* array.findIndex(n => n.id === id): a 1-based index, 0 standing for -1
FindIndex(list, id) ==
    IF \E k \in 1..Len(list) : list[k].id = id
    THEN CHOOSE k \in 1..Len(list) :
            /\ list[k].id = id
            /\ \A j \in 1..(k - 1) : list[j].id # id
    ELSE 0

\* Variant: the last entry is moved into the freed slot (swap-and-pop).
Splice_swapWithLast(list, index) ==
    [k \in 1..(Len(list) - 1) |-> IF k = index THEN list[Len(list)] ELSE list[k]]

\* Variant: every entry with the id found at index is removed (a filter by id).
Splice_everyEqualId(list, index) ==
    SelectSeq(list, LAMBDA n : n.id # list[index].id)

\* array.splice(index, 1)
Splice(list, index) ==
    [k \in 1..(Len(list) - 1) |-> IF k < index THEN list[k] ELSE list[k + 1]]

----------------------------------------------------------------------------
(* The HTTP operations over the store.  Each is a function of the store,   *)
(* the query parameter user_id, the path parameter id and the clock, and   *)
(* yields the store afterwards and the response sent.                      *)

MissingUserId ==
    [status |-> 400, success |-> FALSE, code |-> "MISSING_USER_ID"]

NotFound ==
    [status |-> 404, success |-> FALSE, code |-> "NOT_FOUND"]

Ok(data) ==
    [status |-> 200, success |-> TRUE, data |-> data]

\* Variant: the list of a user that has none is created by the read
\* (get-or-create for notifications.get(userId) || []).
listNotifications_createsList(store, userId) ==
    IF Falsy(userId)
    THEN [store |-> store, res |-> MissingUserId]
    ELSE [store |-> IF userId \in DOMAIN store
                    THEN store
                    ELSE (userId :> <<>>) @@ store,
          res |-> Ok(GetOrEmpty(store, userId))]

\* GET /api/notifications
listNotifications(store, userId) ==
    IF Falsy(userId)
    THEN [store |-> store, res |-> MissingUserId]
    ELSE [store |-> store, res |-> Ok(GetOrEmpty(store, userId))]

\* Variant: a mark-read of a record that is read already makes it unread.
markRead_toggle(store, userId, id, t) ==
    IF Falsy(userId)
    THEN [store |-> store, res |-> MissingUserId]
    ELSE LET userNotifications == GetOrEmpty(store, userId)
             index == FindIndex(userNotifications, id)
         IN  IF index = 0
             THEN [store |-> store, res |-> NotFound]
             ELSE LET notification ==
                          [userNotifications[index] EXCEPT !.read_at =
                              IF @ = Null THEN Date(t) ELSE Null]
                  IN  [store |-> [store EXCEPT ![userId][index] = notification],
                       res |-> Ok(notification)]

\* Variant: once the id is found, every record of the list is marked read.
markRead_wholeList(store, userId, id, t) ==
    IF Falsy(userId)
    THEN [store |-> store, res |-> MissingUserId]
    ELSE LET userNotifications == GetOrEmpty(store, userId)
             index == FindIndex(userNotifications, id)
         IN  IF index = 0
             THEN [store |-> store, res |-> NotFound]
             ELSE LET marked == [k \in 1..Len(userNotifications) |->
                                   [userNotifications[k] EXCEPT !.read_at = Date(t)]]
                  IN  [store |-> [store EXCEPT ![userId] = marked],
                       res |-> Ok(marked[index])]

\* Variant: the record marked is moved to the end of its list.
markRead_movesToEnd(store, userId, id, t) ==
    IF Falsy(userId)
    THEN [store |-> store, res |-> MissingUserId]
    ELSE LET userNotifications == GetOrEmpty(store, userId)
             index == FindIndex(userNotifications, id)
         IN  IF index = 0
             THEN [store |-> store, res |-> NotFound]
             ELSE LET notification ==
                          [userNotifications[index] EXCEPT !.read_at = Date(t)]
                  IN  [store |-> [store EXCEPT ![userId] =
                                     Append(Splice(@, index), notification)],
                       res |-> Ok(notification)]

\* PUT /api/notifications/:id/read
markRead(store, userId, id, t) ==
    IF Falsy(userId)
    THEN [store |-> store, res |-> MissingUserId]
    ELSE LET userNotifications == GetOrEmpty(store, userId)
             index == FindIndex(userNotifications, id)
         IN  IF index = 0
             THEN [store |-> store, res |-> NotFound]
             ELSE LET notification ==
                          [userNotifications[index] EXCEPT !.read_at = Date(t)]
                  IN  [store |-> [store EXCEPT ![userId][index] = notification],
                       res |-> Ok(notification)]

\* Variant: the index !== -1 test is missing, and splice(-1, 1) removes the
\* last entry of the list.
deleteNotification_noIndexTest(store, userId, id) ==
    IF Falsy(userId)
    THEN [store |-> store, res |-> MissingUserId]
    ELSE IF userId \in DOMAIN store
         THEN [store |-> [store EXCEPT ![userId] =
                              IF FindIndex(@, id) # 0
                              THEN Splice(@, FindIndex(@, id))
                              ELSE SubSeq(@, 1, Len(@) - 1)],
               res |-> [status |-> 200, success |-> TRUE,
                        message |-> "Notification deleted"]]
         ELSE [store |-> store, res |-> NotFound]

\* Variant: user_id is tested after the lookup, when nothing was found.
deleteNotification_lookupFirst(store, userId, id) ==
    IF userId \in DOMAIN store /\ FindIndex(store[userId], id) # 0
    THEN [store |-> [store EXCEPT ![userId] =
                         Splice(@, FindIndex(store[userId], id))],
          res |-> [status |-> 200, success |-> TRUE,
                   message |-> "Notification deleted"]]
    ELSE IF Falsy(userId)
         THEN [store |-> store, res |-> MissingUserId]
         ELSE [store |-> store, res |-> NotFound]

\* Variant: the id is looked for in the lists of all users, user_id only
\* being required.
deleteNotification_anyUser(store, userId, id) ==
    IF Falsy(userId)
    THEN [store |-> store, res |-> MissingUserId]
    ELSE IF \E v \in DOMAIN store : FindIndex(store[v], id) # 0
         THEN LET v == CHOOSE v \in DOMAIN store : FindIndex(store[v], id) # 0
              IN  [store |-> [store EXCEPT ![v] = Splice(@, FindIndex(store[v], id))],
                   res |-> [status |-> 200, success |-> TRUE,
                            message |-> "Notification deleted"]]
         ELSE [store |-> store, res |-> NotFound]

\* DELETE /api/notifications/:id
deleteNotification(store, userId, id) ==
    IF Falsy(userId)
    THEN [store |-> store, res |-> MissingUserId]
    ELSE IF userId \in DOMAIN store /\ FindIndex(store[userId], id) # 0
         THEN [store |-> [store EXCEPT ![userId] =
                              Splice(@, FindIndex(store[userId], id))],
               res |-> [status |-> 200, success |-> TRUE,
                        message |-> "Notification deleted"]]
         ELSE [store |-> store, res |-> NotFound]

\* Variant: the filter keeps the records that are read (n.read_at for !n.read_at).
CountUnread_keepsRead(list) ==
    Cardinality({k \in 1..Len(list) : ~Falsy(list[k].read_at)})

\* userNotifications.filter(n => !n.read_at).length
CountUnread(list) ==
    Cardinality({k \in 1..Len(list) : Falsy(list[k].read_at)})

\* GET /api/notifications/unread/count
unreadCount(store, userId) ==
    IF Falsy(userId)
    THEN [store |-> store, res |-> MissingUserId]
    ELSE [store |-> store,
          res |-> Ok([count |-> CountUnread(GetOrEmpty(store, userId))])]

\* The 404 handler: the answer to a request no route matches.
EndpointNotFound ==
    [status |-> 404, success |-> FALSE, code |-> "NOT_FOUND",
     message |-> "Endpoint not found"]

\* The routes in the order they are registered.  path is the sequence of
\* path segments after /api/notifications, userId the query parameter
\* user_id.
Router(store, method, path, userId, t) ==
    IF method = "GET" /\ path = <<>>
    THEN listNotifications(store, userId)
    ELSE IF method = "PUT" /\ Len(path) = 2 /\ path[2] = Str("read")
    THEN markRead(store, userId, path[1], t)
    ELSE IF method = "DELETE" /\ Len(path) = 1
    THEN deleteNotification(store, userId, path[1])
    ELSE IF method = "GET" /\ path = <<Str("unread"), Str("count")>>
    THEN unreadCount(store, userId)
    ELSE [store |-> store, res |-> EndpointNotFound]

----------------------------------------------------------------------------
(* Events.  A payload is a mapping of field names to values; nothing       *)
(* validates it, so any field, client_id included, may be missing.  The    *)
(* destructuring a handler starts with reads a missing field as undefined  *)
(* and raises nothing, and no later statement of a handler raises on an    *)
(* undefined field either.                                                 *)

ClientIds == {Str("u1"), Str("u2")}

EventNames ==
    {"booking.created", "booking.cancelled", "booking.completed",
     "program.assigned", "program.completed", "achievement.earned",
     "milestone.reached"}

\* The payload of a well-formed event of the given name for client c.
WellFormed(name, c) ==
    CASE name = "booking.created" ->
            [booking_id |-> Str("b1"), client_id |-> c, trainer_id |-> Str("t1"),
             booking_date |-> Str("2025-01-15"), start_time |-> Str("10:00")]
      [] name = "booking.cancelled" ->
            [booking_id |-> Str("b1"), client_id |-> c, reason |-> Str("ill")]
      [] name = "booking.completed" ->
            [booking_id |-> Str("b1"), client_id |-> c, trainer_id |-> Str("t1"),
             workout_date |-> Str("2025-01-15")]
      [] name = "program.assigned" ->
            [program_id |-> Str("p1"), client_id |-> c, trainer_id |-> Str("t1"),
             workout_plan_id |-> Str("w1"), diet_plan_id |-> Str("d1")]
      [] name = "program.completed" ->
            [program_id |-> Str("p1"), client_id |-> c, trainer_id |-> Str("t1")]
      [] name = "achievement.earned" ->
            [achievement_id |-> Str("a1"), client_id |-> c, type |-> Str("streak"),
             title |-> Str("7 days"), description |-> Str("A week")]
      [] name = "milestone.reached" ->
            [client_id |-> c, milestone_type |-> Str("weight"),
             achieved_value |-> Str("80"), previous_value |-> Str("85")]

\* A payload that lacks client_id (and every other field but one).
WithoutClientId(name) ==
    [source |-> Str(name)]

\* The payload of a booking.cancelled event that gives no reason.
WithoutReason(c) ==
    [booking_id |-> Str("b1"), client_id |-> c]

Payloads(name) ==
    {WellFormed(name, c) : c \in ClientIds} \cup {WithoutClientId(name)}
    \cup (IF name = "booking.cancelled" THEN {WithoutReason(Str("u1"))} ELSE {})

----------------------------------------------------------------------------
(* The notification each handler stores.                                   *)

handleBookingCreatedNotification(data) ==
    [type |-> Str("booking_confirmation"),
     category |-> Str("booking_confirmation"),
     title |-> Str("Booking Confirmed"),
     message |-> Str("Your session on " \o TemplateString(Field(data, "booking_date"))
                     \o " at " \o TemplateString(Field(data, "start_time"))
                     \o " has been booked successfully."),
     metadata |-> Obj([booking_id |-> Field(data, "booking_id"),
                       booking_date |-> Field(data, "booking_date"),
                       start_time |-> Field(data, "start_time")])]

\* Variant: the message interpolates reason itself (${reason} for
\* ${reason || ''}).
handleBookingCancelledNotification_bareReason(data) ==
    [type |-> Str("booking_cancellation"),
     category |-> Str("booking_reminder"),
     title |-> Str("Booking Cancelled"),
     message |-> Str("Your booking has been cancelled. "
                     \o TemplateString(Field(data, "reason"))),
     metadata |-> Obj([booking_id |-> Field(data, "booking_id")])]

handleBookingCancelledNotification(data) ==
    [type |-> Str("booking_cancellation"),
     category |-> Str("booking_reminder"),
     title |-> Str("Booking Cancelled"),
     message |-> Str("Your booking has been cancelled. "
                     \o TemplateString(OrElse(Field(data, "reason"), Str("")))),
     metadata |-> Obj([booking_id |-> Field(data, "booking_id")])]

\* Variant: program ? program.name : 'Training Program'
ProgramName_noNameFallback(program) ==
    IF Falsy(program)
    THEN Str("Training Program")
    ELSE Field(program.fields, "name")

\* program ? program.name || 'Training Program' : 'Training Program'
ProgramName(program) ==
    IF Falsy(program)
    THEN Str("Training Program")
    ELSE OrElse(Field(program.fields, "name"), Str("Training Program"))

handleProgramAssignedNotification(data, program) ==
    [type |-> Str("program_assigned"),
     category |-> Str("program_assigned"),
     title |-> Str("New Program Assigned"),
     message |-> Str("Your trainer assigned you: "
                     \o TemplateString(ProgramName(program))),
     metadata |-> Obj([program_id |-> Field(data, "program_id"),
                       workout_plan_id |-> Field(data, "workout_plan_id"),
                       diet_plan_id |-> Field(data, "diet_plan_id")])]

handleAchievementEarnedNotification(data) ==
    [type |-> Str("achievement"),
     category |-> Str("achievement"),
     title |-> Str("Achievement Unlocked!"),
     message |-> Str("Congratulations! You've earned: "
                     \o TemplateString(Field(data, "title"))),
     metadata |-> Obj([achievement_id |-> Field(data, "achievement_id"),
                       type |-> Field(data, "type")])]

handleProgramCompletedNotification(data) ==
    [type |-> Str("program_completed"),
     category |-> Str("program_assigned"),
     title |-> Str("Program Completed!"),
     message |-> Str("Congratulations on completing your training program!"),
     metadata |-> Obj([program_id |-> Field(data, "program_id")])]

handleBookingCompletedNotification(data) ==
    [type |-> Str("booking_completed"),
     category |-> Str("booking_confirmation"),
     title |-> Str("Session Completed"),
     message |-> Str("Your training session on "
                     \o TemplateString(Field(data, "workout_date"))
                     \o " is complete. Log your workout!"),
     metadata |-> Obj([booking_id |-> Field(data, "booking_id")])]

\* Variant: the metadata names two fields of the payload, not the payload.
handleMilestoneReachedNotification_pickedFields(data) ==
    [type |-> Str("milestone"),
     category |-> Str("achievement"),
     title |-> Str("Milestone Achieved!"),
     message |-> Str("You've reached: "
                     \o TemplateString(Field(data, "milestone_type"))),
     metadata |-> Obj([milestone_type |-> Field(data, "milestone_type"),
                       achieved_value |-> Field(data, "achieved_value")])]

handleMilestoneReachedNotification(data) ==
    [type |-> Str("milestone"),
     category |-> Str("achievement"),
     title |-> Str("Milestone Achieved!"),
     message |-> Str("You've reached: "
                     \o TemplateString(Field(data, "milestone_type"))),
     metadata |-> Obj(data)]

\* The notification the invocation inv passes to storeNotification.
NotificationOf(inv) ==
    CASE inv.name = "booking.created" -> handleBookingCreatedNotification(inv.data)
      [] inv.name = "booking.cancelled" -> handleBookingCancelledNotification(inv.data)
      [] inv.name = "booking.completed" -> handleBookingCompletedNotification(inv.data)
      [] inv.name = "program.assigned" ->
            handleProgramAssignedNotification(inv.data, inv.program)
      [] inv.name = "program.completed" -> handleProgramCompletedNotification(inv.data)
      [] inv.name = "achievement.earned" -> handleAchievementEarnedNotification(inv.data)
      [] inv.name = "milestone.reached" -> handleMilestoneReachedNotification(inv.data)

----------------------------------------------------------------------------
(* Handler invocations.  An invocation is the activation of one async      *)
(* handler: its event, its locals, the await it is suspended on (pc), the  *)
(* state of the promise it returned (settled), and the history of what it  *)
(* did: emails sent, resolver calls issued, the position in appendLog of   *)
(* its storeNotification call (0: none), and how many earlier invocations  *)
(* had aborted when it was invoked (failuresBefore).                       *)

NewInvocation(name, data) ==
    [name |-> name, data |-> data, pc |-> "start",
     client |-> Undefined, program |-> Undefined,
     emails |-> 0, userLookups |-> 0, programLookups |-> 0,
     settled |-> "pending", logPos |-> 0,
     failuresBefore |->
        Cardinality({i \in 1..Len(invocations) : invocations[i].pc = "aborted"})]

\* await sendEmail(...): the mocked send logs and resolves at once
CallSendEmail(inv) ==
    [inv EXCEPT !.emails = @ + 1, !.pc = "awaitEmail"]

\* await getUserContact(client_id)
CallGetUserContact(inv) ==
    [inv EXCEPT !.userLookups = @ + 1, !.pc = "awaitUser"]

\* await getProgramDetails(program_id)
CallGetProgramDetails(inv) ==
    [inv EXCEPT !.programLookups = @ + 1, !.pc = "awaitProgram"]

\* Variant: only null counts as a failed lookup (client === null for !client).
UserLookupFailed_nullOnly(client) ==
    client = Null

\* if (!client)
UserLookupFailed(client) ==
    Falsy(client)

\* Variant: the handler raises instead of returning; its promise is rejected.
AbortHandler_throws(inv) ==
    [inv EXCEPT !.pc = "aborted", !.settled = "rejected"]

\* Variant: on an absent user the handler looks the user up once more.
AbortHandler_retries(inv) ==
    CallGetUserContact(inv)

\* Variant: the email is sent before the handler returns on an absent user.
AbortHandler_afterEmail(inv) ==
    [inv EXCEPT !.pc = "aborted", !.settled = "fulfilled", !.emails = @ + 1]

\* if (!client) { ...; return; }: the async handler's promise is fulfilled
AbortHandler(inv) ==
    [inv EXCEPT !.pc = "aborted", !.settled = "fulfilled"]

\* Variant: the continuation is run before those already queued.
EnqueueMicrotask_first(queue, i) ==
    <<i>> \o queue

\* Variant: the continuation is lost (the awaited promise never settles).
EnqueueMicrotask_lost(queue, i) ==
    queue

\* The continuation after `await p` is queued behind those already queued.
EnqueueMicrotask(queue, i) ==
    Append(queue, i)

\* Nothing handles the promise a handler returns to the subscription: a
\* rejected one is an unhandled rejection, which ends the process.
ProcessAlive ==
    \A i \in 1..Len(invocations) : invocations[i].settled # "rejected"

\* The macrotask queue is served only when no microtask is pending.
MacrotaskTurn ==
    ProcessAlive /\ microtasks = <<>>

Init ==
    /\ now = 0
    /\ notifications = <<>>
    /\ invocations = <<>>
    /\ microtasks = <<>>
    /\ appendLog = <<>>
    /\ deletes = <<>>

\* Date.now() advances.
Tick ==
    /\ now < MaxClock
    /\ now' = now + 1
    /\ UNCHANGED <<notifications, invocations, microtasks, appendLog, deletes>>

\* A handler that starts with `await sendEmail` (no resolver call) is invoked.
InvokeWithEmail(name, data, limit) ==
    /\ ProcessAlive
    /\ Len(invocations) < limit
    /\ invocations' = Append(invocations, CallSendEmail(NewInvocation(name, data)))
    /\ microtasks' = EnqueueMicrotask(microtasks, Len(invocations) + 1)
    /\ UNCHANGED <<now, notifications, appendLog, deletes>>

\* A handler that starts with `await getUserContact(client_id)` is invoked.
InvokeWithUserLookup(name, data, limit) ==
    /\ ProcessAlive
    /\ Len(invocations) < limit
    /\ invocations' = Append(invocations, CallGetUserContact(NewInvocation(name, data)))
    /\ UNCHANGED <<now, notifications, microtasks, appendLog, deletes>>

\* Variant: the handler looks the client up before it sends the email.
handleBookingCreated_looksUserUp ==
    \E data \in Payloads("booking.created") :
        InvokeWithUserLookup("booking.created", data, MaxEvents)

handleBookingCreated ==
    \E data \in Payloads("booking.created") :
        InvokeWithEmail("booking.created", data, MaxEvents)

handleBookingCancelled ==
    \E data \in Payloads("booking.cancelled") :
        InvokeWithEmail("booking.cancelled", data, MaxEvents)

handleProgramAssigned ==
    \E data \in Payloads("program.assigned") :
        InvokeWithUserLookup("program.assigned", data, MaxEvents)

handleAchievementEarned ==
    \E data \in Payloads("achievement.earned") :
        InvokeWithUserLookup("achievement.earned", data, MaxEvents)

handleProgramCompleted ==
    \E data \in Payloads("program.completed") :
        InvokeWithUserLookup("program.completed", data, MaxEvents)

handleBookingCompleted ==
    \E data \in Payloads("booking.completed") :
        InvokeWithUserLookup("booking.completed", data, MaxEvents)

handleMilestoneReached ==
    \E data \in Payloads("milestone.reached") :
        InvokeWithUserLookup("milestone.reached", data, MaxEvents)

\* Channels other services publish on that startServer subscribes to with no
\* listener.
UnsubscribedChannels ==
    {"booking.updated", "user.registered"}

\* Variant: a listener of every channel (pSubscribe('*', handleBookingCreated)).
ListenerOf_catchAll(channel) ==
    IF channel \in EventNames THEN channel ELSE "booking.created"

\* The listener startServer registered for the channel, named by its event;
\* "none" when the channel was not subscribed to.
ListenerOf(channel) ==
    IF channel \in EventNames THEN channel ELSE "none"

\* A message published on the channel is delivered: the listener of the
\* channel, if there is one, is invoked with it.
Deliver(channel, data, limit) ==
    IF ListenerOf(channel) = "none"
    THEN ProcessAlive /\ UNCHANGED vars
    ELSE IF ListenerOf(channel) \in {"booking.created", "booking.cancelled"}
         THEN InvokeWithEmail(ListenerOf(channel), data, limit)
         ELSE InvokeWithUserLookup(ListenerOf(channel), data, limit)

\* An event is published on a channel nothing was subscribed to.
publishUnsubscribed ==
    \E channel \in UnsubscribedChannels, c \in ClientIds :
        Deliver(channel, [client_id |-> c, source |-> Str(channel)], MaxEvents)

\* Variant: program.assigned fetches the program before it tests the client.
AfterUserLookup_programBeforeTest(inv, client) ==
    LET got == [inv EXCEPT !.client = client]
    IN  IF inv.name = "program.assigned"
        THEN CallGetProgramDetails(got)
        ELSE IF UserLookupFailed(client)
             THEN AbortHandler(got)
             ELSE CallSendEmail(got)

\* The handler's code from the return of getUserContact to its next await.
AfterUserLookup(inv, client) ==
    LET got == [inv EXCEPT !.client = client]
    IN  IF UserLookupFailed(client)
        THEN AbortHandler(got)
        ELSE IF inv.name = "program.assigned"
             THEN CallGetProgramDetails(got)
             ELSE CallSendEmail(got)

\* The user service answers (or the call fails): invocation i resumes.
getUserContactReturns ==
    \E i \in 1..Len(invocations) :
        /\ MacrotaskTurn
        /\ invocations[i].pc = "awaitUser"
        /\ \E response \in UserResponses(Field(invocations[i].data, "client_id")) :
              LET next == AfterUserLookup(invocations[i], getUserContact(response))
              IN  /\ invocations' = [invocations EXCEPT ![i] = next]
                  /\ microtasks' = IF next.pc = "awaitEmail"
                                   THEN EnqueueMicrotask(microtasks, i)
                                   ELSE microtasks
        /\ UNCHANGED <<now, notifications, appendLog, deletes>>

\* The training service answers (or the call fails): invocation i resumes.
getProgramDetailsReturns ==
    \E i \in 1..Len(invocations) :
        /\ MacrotaskTurn
        /\ invocations[i].pc = "awaitProgram"
        /\ \E response \in ProgramResponses(Field(invocations[i].data, "program_id")) :
              invocations' = [invocations EXCEPT ![i] =
                  CallSendEmail([@ EXCEPT !.program = getProgramDetails(response)])]
        /\ microtasks' = EnqueueMicrotask(microtasks, i)
        /\ UNCHANGED <<now, notifications, appendLog, deletes>>

\* The handler's code after `await sendEmail`: storeNotification, then return.
sendEmailResolves ==
    /\ ProcessAlive
    /\ microtasks # <<>>
    /\ LET i == Head(microtasks)
           inv == invocations[i]
           userId == Field(inv.data, "client_id")
       IN  /\ notifications' =
                  storeNotification(notifications, userId, NotificationOf(inv), now)
           /\ appendLog' = Append(appendLog, [userId |-> userId, inv |-> i, t |-> now])
           /\ invocations' = [invocations EXCEPT ![i] =
                  [@ EXCEPT !.pc = "done", !.settled = "fulfilled",
                            !.logPos = Len(appendLog) + 1]]
    /\ microtasks' = Tail(microtasks)
    /\ UNCHANGED <<now, deletes>>

----------------------------------------------------------------------------
(* HTTP requests.                                                          *)

\* req.query.user_id: absent, or a string
QueryUserIds == {Undefined, Str("u1"), Str("u2")}

\* req.params.id: always a string
PathIds == {Str(ToString(t)) : t \in 0..MaxClock} \cup {Str("nonexistent")}

\* The request is served in one macrotask; the response leaves the process.
Serve(outcome) ==
    /\ MacrotaskTurn
    /\ notifications' = outcome.store
    /\ UNCHANGED <<now, invocations, microtasks, appendLog>>

\* The number of successful deletes served for userId so far.
DeletesOf(userId) ==
    IF userId \in DOMAIN deletes THEN deletes[userId] ELSE 0

GetNotifications ==
    \E userId \in QueryUserIds :
        /\ Serve(listNotifications(notifications, userId))
        /\ UNCHANGED deletes

PutRead ==
    \E userId \in QueryUserIds, id \in PathIds :
        /\ Serve(markRead(notifications, userId, id, now))
        /\ UNCHANGED deletes

DeleteNotification ==
    \E userId \in QueryUserIds, id \in PathIds :
        LET outcome == deleteNotification(notifications, userId, id)
        IN  /\ Serve(outcome)
            /\ deletes' = IF outcome.res.status = 200
                          THEN (userId :> (DeletesOf(userId) + 1)) @@ deletes
                          ELSE deletes

GetUnreadCount ==
    \E userId \in QueryUserIds :
        /\ Serve(unreadCount(notifications, userId))
        /\ UNCHANGED deletes

\* GET /api/notifications/{userId}, as a client following the README asks.
GetNotificationsByPath ==
    \E userId \in ClientIds :
        /\ Serve(Router(notifications, "GET", <<userId>>, Undefined, now))
        /\ UNCHANGED deletes

Next ==
    \/ Tick
    \/ handleBookingCreated
    \/ handleBookingCancelled
    \/ handleProgramAssigned
    \/ handleAchievementEarned
    \/ handleProgramCompleted
    \/ handleBookingCompleted
    \/ handleMilestoneReached
    \/ publishUnsubscribed
    \/ getUserContactReturns
    \/ getProgramDetailsReturns
    \/ sendEmailResolves
    \/ GetNotifications
    \/ PutRead
    \/ DeleteNotification
    \/ GetUnreadCount
    \/ GetNotificationsByPath

Spec == Init /\ [][Next]_vars

\* The same behaviours under the scheduling the runtime gives: the event
\* loop runs every queued continuation, and every pending resolver call
\* returns, with an answer or, when the 5 s timeout of its axios client
\* expires, with the failure the catch turns into null.
FairSpec ==
    /\ Init /\ [][Next]_vars
    /\ WF_vars(sendEmailResolves)
    /\ WF_vars(getUserContactReturns)
    /\ WF_vars(getProgramDetailsReturns)

----------------------------------------------------------------------------
(* The store-centred specification: the same store, clock, microtask queue *)
(* and HTTP operations, fed by a longer stream of booking.created and      *)
(* booking.cancelled events only, so that lists of three and more records  *)
(* are reached.                                                            *)

\* The events of the stream: bookings created for either client, and a
\* booking cancelled for the first.
StreamEvents ==
    {[name |-> "booking.created", data |-> WellFormed("booking.created", c)] :
        c \in ClientIds}
    \cup {[name |-> "booking.cancelled",
           data |-> WellFormed("booking.cancelled", Str("u1"))]}

bookingStream ==
    \E event \in StreamEvents :
        InvokeWithEmail(event.name, event.data, MaxStoreEvents)

StoreNext ==
    \/ Tick
    \/ bookingStream
    \/ sendEmailResolves
    \/ GetNotifications
    \/ PutRead
    \/ DeleteNotification
    \/ GetUnreadCount
    \/ GetNotificationsByPath

StoreSpec == Init /\ [][StoreNext]_vars

----------------------------------------------------------------------------
(* Properties.                                                             *)

\* The storeNotification calls made for userId, in call order.
AppendsOf(userId) ==
    SelectSeq(appendLog, LAMBDA e : e.userId = userId)

\* record is what the logged call e stored, but for read_at: the fields of
\* the handler's notification as given, the id and created_at of the call.
StoredBy(record, e) ==
    LET draft == NotificationOf(invocations[e.inv])
    IN  /\ DOMAIN record = DOMAIN draft \cup {"id", "read_at", "created_at"}
        /\ \A f \in DOMAIN draft : record[f] = draft[f]
        /\ record.id = Str(ToString(e.t))
        /\ record.created_at = Date(e.t)

\* list without its entry at position i
RemoveAt(list, i) ==
    SubSeq(list, 1, i - 1) \o SubSeq(list, i + 1, Len(list))

\* C1: for every user with no delete so far, listing the user's
\* notifications returns exactly the records appended for that user, in the
\* order the appends were performed, whatever their content.
C1_ListReturnsAppendsInCallOrder ==
    \A u \in ClientIds :
        DeletesOf(u) = 0 =>
            LET response == listNotifications(notifications, u).res
                calls == AppendsOf(u)
            IN  /\ response.status = 200
                /\ Len(response.data) = Len(calls)
                /\ \A k \in 1..Len(calls) : StoredBy(response.data[k], calls[k])

\* Two appends of different content were made for one user, none deleted.
C1_Witness ==
    \E u \in ClientIds :
        /\ DeletesOf(u) = 0
        /\ Len(AppendsOf(u)) = 2
        /\ invocations[AppendsOf(u)[1].inv].name # invocations[AppendsOf(u)[2].inv].name
        /\ AppendsOf(u)[1].inv > AppendsOf(u)[2].inv

\* C2: no two notifications in the same user's list have the same id.
C2_IdsUniqueWithinList ==
    \A u \in DOMAIN notifications :
        \A j, k \in 1..Len(notifications[u]) :
            j # k => notifications[u][j].id # notifications[u][k].id

\* C3: a successful delete(userId, id) removes exactly one entry of that
\* user's list, an entry whose id is the given id, keeps the remaining
\* entries in their relative order, and leaves every other list alone.
C3_DeleteRemovesOneKeepsOrder ==
    \A u \in QueryUserIds, id \in PathIds :
        LET outcome == deleteNotification(notifications, u, id)
            before == GetOrEmpty(notifications, u)
        IN  outcome.res.status = 200 =>
                /\ u \in DOMAIN notifications
                /\ DOMAIN outcome.store = DOMAIN notifications
                /\ \A v \in DOMAIN notifications \ {u} :
                        outcome.store[v] = notifications[v]
                /\ Len(outcome.store[u]) = Len(before) - 1
                /\ \E i \in 1..Len(before) :
                        /\ before[i].id = id
                        /\ outcome.store[u] = RemoveAt(before, i)

\* The middle one of three appended records has been deleted: the list holds
\* the first and the third, in that order.
C3_Witness ==
    \E u \in ClientIds :
        /\ DeletesOf(u) = 1
        /\ Len(AppendsOf(u)) = 3
        /\ Len(notifications[u]) = 2
        /\ StoredBy(notifications[u][1], AppendsOf(u)[1])
        /\ StoredBy(notifications[u][2], AppendsOf(u)[3])
        /\ ~StoredBy(notifications[u][1], AppendsOf(u)[2])
        /\ ~StoredBy(notifications[u][2], AppendsOf(u)[2])

\* The read_at of every record the step keeps is what it was, once non-null.
ReadAtFrozen(before, after) ==
    IF Len(after) >= Len(before)
    THEN \A k \in 1..Len(before) :
            before[k].read_at # Null => after[k].read_at = before[k].read_at
    ELSE \E i \in 1..Len(before) : after = RemoveAt(before, i)

\* C4 as claimed: no operation, a repeated mark-read included, changes a
\* read_at that is already non-null.
C4_ReadAtFrozenOnceSet ==
    [][\A u \in DOMAIN notifications :
          ReadAtFrozen(notifications[u], notifications'[u])]_vars

\* The read_at of every record the step keeps is what it was or the current
\* time, and a non-null one stays non-null.
ReadAtOneWay(before, after, t) ==
    IF Len(after) >= Len(before)
    THEN \A k \in 1..Len(before) :
            /\ after[k].read_at \in {before[k].read_at, Date(t)}
            /\ before[k].read_at # Null => after[k].read_at # Null
    ELSE \E i \in 1..Len(before) : after = RemoveAt(before, i)

\* C4 as amended: a read_at never goes from non-null back to null; the only
\* change a read_at undergoes is being set to the current time by a
\* mark-read, which replaces the timestamp of a record that is read already.
C4_ReadAtNeverBackToNull ==
    [][\A u \in DOMAIN notifications :
          ReadAtOneWay(notifications[u], notifications'[u], now)]_vars

\* A mark-read has acted at a clock reading later than the record's creation.
C4_Witness ==
    \E u \in DOMAIN notifications :
        \E k \in 1..Len(notifications[u]) :
            /\ notifications[u][k].read_at # Null
            /\ notifications[u][k].read_at.ms > notifications[u][k].created_at.ms

\* C5: a successful mark-read of (userId, id) changes only the read_at of one
\* record with that id: the other fields of that record, the other records
\* of the list, its length and order, and every other list stay as they are.
C5_MarkReadChangesOnlyReadAt ==
    \A u \in QueryUserIds, id \in PathIds :
        LET outcome == markRead(notifications, u, id, now)
            before == GetOrEmpty(notifications, u)
        IN  outcome.res.status = 200 =>
                /\ DOMAIN outcome.store = DOMAIN notifications
                /\ \A v \in DOMAIN notifications \ {u} :
                        outcome.store[v] = notifications[v]
                /\ Len(outcome.store[u]) = Len(before)
                /\ \E i \in 1..Len(before) :
                        /\ before[i].id = id
                        /\ \A k \in 1..Len(before) \ {i} :
                                outcome.store[u][k] = before[k]
                        /\ DOMAIN outcome.store[u][i] = DOMAIN before[i]
                        /\ \A f \in DOMAIN before[i] \ {"read_at"} :
                                outcome.store[u][i][f] = before[i][f]

\* A mark-read has acted on a list that holds an unread sibling with the same
\* id, while another user's list holds an unread record.
C5_Witness ==
    \E u, v \in ClientIds :
        /\ u # v
        /\ u \in DOMAIN notifications
        /\ v \in DOMAIN notifications
        /\ \E j, k \in 1..Len(notifications[u]) :
                /\ notifications[u][j].read_at # Null
                /\ notifications[u][k].read_at = Null
                /\ notifications[u][j].id = notifications[u][k].id
        /\ \E k \in 1..Len(notifications[v]) : notifications[v][k].read_at = Null

\* C6: the unread count reported for a user is the number of records of the
\* user's list whose read_at is null: 0 for a user without a list, for an
\* empty list and for a list whose records are all read.
C6_UnreadCountIsNullReadAts ==
    \A u \in QueryUserIds :
        ~Falsy(u) =>
            LET response == unreadCount(notifications, u).res
                list == GetOrEmpty(notifications, u)
                unread == {k \in 1..Len(list) : list[k].read_at = Null}
            IN  /\ response.status = 200
                /\ response.data.count = Cardinality(unread)
                /\ u \notin DOMAIN notifications => response.data.count = 0
                /\ list = <<>> => response.data.count = 0
                /\ (\A k \in 1..Len(list) : list[k].read_at # Null) =>
                        response.data.count = 0

\* After appends, a mark-read and a delete, one user's list holds a read and
\* an unread record, and another user's list has been emptied.
C6_Witness ==
    \E u, v \in ClientIds :
        /\ u \in DOMAIN notifications
        /\ v \in DOMAIN notifications
        /\ Len(notifications[u]) = 2
        /\ \E j, k \in 1..2 :
                /\ notifications[u][j].read_at # Null
                /\ notifications[u][k].read_at = Null
        /\ notifications[v] = <<>>
        /\ DeletesOf(v) = 1

\* C7: mark-read and delete with a user_id and an id that is not in that
\* user's list (an unknown user included) answer 404 NOT_FOUND and leave the
\* whole store as it is.
C7_UnknownIdIsNotFound ==
    \A u \in QueryUserIds, id \in PathIds :
        LET list == GetOrEmpty(notifications, u)
        IN  (~Falsy(u) /\ \A k \in 1..Len(list) : list[k].id # id) =>
                /\ markRead(notifications, u, id, now) =
                        [store |-> notifications, res |-> NotFound]
                /\ deleteNotification(notifications, u, id) =
                        [store |-> notifications, res |-> NotFound]

\* One user has records, none with the id "nonexistent", and one of them read;
\* another user has no list at all.
C7_Witness ==
    \E u, v \in ClientIds :
        /\ u \in DOMAIN notifications
        /\ Len(notifications[u]) >= 2
        /\ \E k \in 1..Len(notifications[u]) : notifications[u][k].read_at # Null
        /\ \A k \in 1..Len(notifications[u]) :
                notifications[u][k].id # Str("nonexistent")
        /\ v \notin DOMAIN notifications

\* The handlers that look the user up before anything else.
UserLookupHandlers ==
    {"booking.completed", "program.assigned", "program.completed",
     "achievement.earned", "milestone.reached"}

\* C8: when the user lookup of one of the five handlers that make one returns
\* absent, the invocation ends there: it sends no email, queues no
\* continuation, appends nothing then or later, and the step leaves the
\* store as it is.
C8_AbsentUserAbortsWithoutEffect ==
    [][\A i \in 1..Len(invocations) :
          /\ ( /\ invocations[i].pc = "awaitUser"
               /\ invocations'[i].pc # "awaitUser"
               /\ Falsy(invocations'[i].client) ) =>
                    /\ invocations[i].name \in UserLookupHandlers
                    /\ invocations'[i].pc = "aborted"
                    /\ invocations'[i].emails = 0
                    /\ invocations'[i].logPos = 0
                    /\ notifications' = notifications
                    /\ appendLog' = appendLog
                    /\ microtasks' = microtasks
          /\ invocations[i].pc = "aborted" =>
                    /\ invocations'[i] = invocations[i]
                    /\ \A k \in 1..Len(appendLog') : appendLog'[k].inv # i
      ]_vars

\* Invocations of two different handlers have aborted on an absent user: one
\* on a failed call (null), one on a 2xx answer without data (undefined).
C8_Witness ==
    \E i, j \in 1..Len(invocations) :
        /\ invocations[i].name # invocations[j].name
        /\ invocations[i].pc = "aborted"
        /\ invocations[j].pc = "aborted"
        /\ invocations[i].client = Null
        /\ invocations[j].client = Undefined
        /\ notifications = <<>>

C10_OnlyLookupsLetLaterEventsOvertake ==
    \A i, j \in 1..Len(invocations) :
        ( /\ i < j
          /\ invocations[j].logPos > 0
          /\ invocations[i].logPos > invocations[j].logPos ) =>
                invocations[i].userLookups = 1

\* Events A (program.assigned) then B (booking.created) arrived for one user,
\* and the user's list holds B's notification before A's.
C10_Witness ==
    \E u \in ClientIds :
        /\ Len(invocations) = 2
        /\ invocations[1].name = "program.assigned"
        /\ invocations[2].name = "booking.created"
        /\ Field(invocations[1].data, "client_id") = u
        /\ Field(invocations[2].data, "client_id") = u
        /\ u \in DOMAIN notifications
        /\ Len(notifications[u]) = 2
        /\ notifications[u][1].type = Str("booking_confirmation")
        /\ notifications[u][2].type = Str("program_assigned")
        /\ StoredBy(notifications[u][1], appendLog[invocations[2].logPos])
        /\ StoredBy(notifications[u][2], appendLog[invocations[1].logPos])

\* C11: in every interleaving of suspended handler invocations and API
\* calls, the length of each user's list is the number of storeNotification
\* calls completed for that user minus the number of deletes answered 200
\* for that user.
C11_LengthIsAppendsMinusDeletes ==
    \A u \in DOMAIN notifications \cup DOMAIN deletes
               \cup {appendLog[k].userId : k \in 1..Len(appendLog)} :
        Len(GetOrEmpty(notifications, u)) = Len(AppendsOf(u)) - DeletesOf(u)

\* A delete was served for a user while another event of the same user was
\* suspended on its user lookup: one append, one delete, an empty list.
C11_Witness ==
    \E u \in ClientIds, i \in 1..Len(invocations) :
        /\ invocations[i].pc = "awaitUser"
        /\ Field(invocations[i].data, "client_id") = u
        /\ Len(AppendsOf(u)) = 1
        /\ DeletesOf(u) = 1
        /\ u \in DOMAIN notifications
        /\ notifications[u] = <<>>

\* The number of storeNotification calls invocation i has made, in log.
AppendsBy(log, i) ==
    Cardinality({k \in 1..Len(log) : log[k].inv = i})

\* C12: a handler invocation that does not abort makes exactly one
\* storeNotification call, at the step it finishes; that step appends one
\* record, the invocation's notification, to the list keyed by the payload's
\* client_id and leaves every other user's list as it was; an invocation
\* that has not finished, or has aborted, has appended nothing, and one that
\* has finished appends nothing more.
C12_OneAppendToTheClientsList ==
    [][\A i \in 1..Len(invocations) :
          LET u == Field(invocations[i].data, "client_id")
              before == GetOrEmpty(notifications, u)
          IN  /\ AppendsBy(appendLog', i) = IF invocations'[i].pc = "done" THEN 1 ELSE 0
              /\ (invocations[i].pc # "done" /\ invocations'[i].pc = "done") =>
                    /\ DOMAIN notifications' = DOMAIN notifications \cup {u}
                    /\ Len(notifications'[u]) = Len(before) + 1
                    /\ SubSeq(notifications'[u], 1, Len(before)) = before
                    /\ StoredBy(notifications'[u][Len(before) + 1],
                                appendLog'[Len(appendLog')])
                    /\ appendLog'[Len(appendLog')].inv = i
                    /\ appendLog'[Len(appendLog')].userId = u
                    /\ \A v \in DOMAIN notifications \ {u} :
                            notifications'[v] = notifications[v]
      ]_vars

\* Two events for two different clients have been handled to the end, the
\* second while the first client's list existed: each list holds one record.
C12_Witness ==
    /\ Len(invocations) = 2
    /\ invocations[1].pc = "done"
    /\ invocations[2].pc = "done"
    /\ Field(invocations[1].data, "client_id") = Str("u1")
    /\ Field(invocations[2].data, "client_id") = Str("u2")
    /\ invocations[1].logPos = 1
    /\ invocations[2].logPos = 2
    /\ DOMAIN notifications = {Str("u1"), Str("u2")}
    /\ Len(notifications[Str("u1")]) = 1
    /\ Len(notifications[Str("u2")]) = 1

\* The table of events: the type and the category of the notification of
\* each event name, and the payload fields its metadata is made of (for
\* milestone.reached the metadata is the payload itself).
EventTable ==
    [name \in EventNames |->
        CASE name = "booking.created" ->
                [type |-> "booking_confirmation", category |-> "booking_confirmation",
                 metadata |-> {"booking_id", "booking_date", "start_time"}]
          [] name = "booking.cancelled" ->
                [type |-> "booking_cancellation", category |-> "booking_reminder",
                 metadata |-> {"booking_id"}]
          [] name = "booking.completed" ->
                [type |-> "booking_completed", category |-> "booking_confirmation",
                 metadata |-> {"booking_id"}]
          [] name = "program.assigned" ->
                [type |-> "program_assigned", category |-> "program_assigned",
                 metadata |-> {"program_id", "workout_plan_id", "diet_plan_id"}]
          [] name = "program.completed" ->
                [type |-> "program_completed", category |-> "program_assigned",
                 metadata |-> {"program_id"}]
          [] name = "achievement.earned" ->
                [type |-> "achievement", category |-> "achievement",
                 metadata |-> {"achievement_id", "type"}]
          [] name = "milestone.reached" ->
                [type |-> "milestone", category |-> "achievement",
                 metadata |-> {}]]

\* record has the type, the category and the metadata the table gives for an
\* event of the given name and payload.
MatchesTable(record, name, data) ==
    /\ record.type = Str(EventTable[name].type)
    /\ record.category = Str(EventTable[name].category)
    /\ IF name = "milestone.reached"
       THEN record.metadata = Obj(data)
       ELSE /\ record.metadata.t = "object"
            /\ DOMAIN record.metadata.fields = EventTable[name].metadata
            /\ \A f \in EventTable[name].metadata :
                    record.metadata.fields[f] = Field(data, f)

\* C13: the record stored for an event of each of the seven names has the
\* type, the category and the metadata fields of the event table.  (The
\* k-th record of a list nothing was deleted from is the one stored by the
\* k-th storeNotification call for that user.)
C13_StoredFieldsMatchTheEventTable ==
    \A u \in DOMAIN notifications :
        DeletesOf(u) = 0 =>
            \A k \in 1..Len(notifications[u]) :
                LET inv == invocations[AppendsOf(u)[k].inv]
                IN  /\ inv.name \in EventNames
                    /\ MatchesTable(notifications[u][k], inv.name, inv.data)

\* The list of one client holds the record of a milestone.reached event and
\* the record of a booking.cancelled event.
C13_Witness ==
    \E u \in ClientIds :
        /\ u \in DOMAIN notifications
        /\ DeletesOf(u) = 0
        /\ Len(notifications[u]) = 2
        /\ {invocations[AppendsOf(u)[k].inv].name : k \in 1..2} =
                {"milestone.reached", "booking.cancelled"}
        /\ \E k \in 1..2 :
                notifications[u][k].metadata =
                    Obj(WellFormed("milestone.reached", u))

\* The handlers that call no resolver.
DirectHandlers ==
    {"booking.created", "booking.cancelled"}

\* C14: an invocation of the booking.created or the booking.cancelled
\* handler makes no user and no program lookup and never aborts: from its
\* invocation on its continuation is queued, with no answer of any service
\* awaited, and once it has run the notification is appended.
C14_BookingHandlersNeedNoService ==
    \A i \in 1..Len(invocations) :
        invocations[i].name \in DirectHandlers =>
            /\ invocations[i].userLookups = 0
            /\ invocations[i].programLookups = 0
            /\ invocations[i].pc \in {"awaitEmail", "done"}
            /\ invocations[i].pc = "awaitEmail" =>
                    /\ \E k \in 1..Len(microtasks) : microtasks[k] = i
                    /\ ENABLED sendEmailResolves
            /\ invocations[i].pc = "done" =>
                    /\ invocations[i].logPos \in 1..Len(appendLog)
                    /\ appendLog[invocations[i].logPos].inv = i
                    /\ appendLog[invocations[i].logPos].userId =
                            Field(invocations[i].data, "client_id")

\* The user service was down for an earlier event (its lookup failed and the
\* handler aborted); the booking event that followed has been stored.
C14_Witness ==
    \E u \in ClientIds :
        /\ Len(invocations) = 2
        /\ invocations[1].pc = "aborted"
        /\ invocations[1].client = Null
        /\ invocations[2].name \in DirectHandlers
        /\ invocations[2].pc = "done"
        /\ invocations[2].userLookups = 0
        /\ Field(invocations[2].data, "client_id") = u
        /\ u \in DOMAIN notifications
        /\ Len(notifications[u]) = 1
        /\ StoredBy(notifications[u][1], appendLog[invocations[2].logPos])

\* The program name the message of a program.assigned notification is to
\* carry: the literal when the lookup returned absent or the program has no
\* name or an empty one, the name of the program otherwise.
ExpectedProgramName(program) ==
    IF program \in {Null, Undefined}
    THEN "Training Program"
    ELSE IF "name" \notin DOMAIN program.fields
         THEN "Training Program"
         ELSE IF program.fields.name = Str("")
              THEN "Training Program"
              ELSE program.fields.name.v

\* C15: a program.assigned invocation aborts only on an absent user: once
\* the user is resolved it goes on through the program lookup, whatever that
\* returns, to the email and the append; and the message stored names the
\* program by its name, or by "Training Program" when the lookup returned
\* absent or the program has no name or an empty one.
C15_ProgramLookupNeverAborts ==
    /\ \A i \in 1..Len(invocations) :
            invocations[i].name = "program.assigned" =>
                /\ invocations[i].pc = "aborted" =>
                        /\ Falsy(invocations[i].client)
                        /\ invocations[i].programLookups = 0
                /\ invocations[i].pc \in {"awaitProgram", "awaitEmail", "done"} =>
                        ~Falsy(invocations[i].client)
                /\ invocations[i].pc = "awaitEmail" =>
                        \E k \in 1..Len(microtasks) : microtasks[k] = i
                /\ invocations[i].pc = "done" =>
                        /\ invocations[i].programLookups = 1
                        /\ invocations[i].logPos \in 1..Len(appendLog)
                        /\ appendLog[invocations[i].logPos].inv = i
    /\ \A u \in DOMAIN notifications :
            DeletesOf(u) = 0 =>
                \A k \in 1..Len(notifications[u]) :
                    LET inv == invocations[AppendsOf(u)[k].inv]
                    IN  inv.name = "program.assigned" =>
                            notifications[u][k].message =
                                Str("Your trainer assigned you: "
                                    \o ExpectedProgramName(inv.program))

\* Two program.assigned events of one client have been stored: for the first
\* the program lookup failed, for the second it returned a named program.
C15_Witness ==
    \E u \in ClientIds :
        /\ u \in DOMAIN notifications
        /\ DeletesOf(u) = 0
        /\ Len(notifications[u]) = 2
        /\ Len(invocations) = 2
        /\ invocations[1].name = "program.assigned"
        /\ invocations[2].name = "program.assigned"
        /\ invocations[AppendsOf(u)[1].inv].program = Null
        /\ invocations[AppendsOf(u)[2].inv].program # Null
        /\ notifications[u][1].message =
                Str("Your trainer assigned you: Training Program")
        /\ notifications[u][2].message =
                Str("Your trainer assigned you: Strength")

\* C16: the message stored for a booking.cancelled event that has no reason
\* field is exactly "Your booking has been cancelled. ", trailing space
\* kept and nothing after it (so no "Reason:" in it); the message stored for
\* one that has a reason is that text followed by the reason.
C16_CancelledMessageCarriesTheReason ==
    \A u \in DOMAIN notifications :
        DeletesOf(u) = 0 =>
            \A k \in 1..Len(notifications[u]) :
                LET inv == invocations[AppendsOf(u)[k].inv]
                IN  inv.name = "booking.cancelled" =>
                        IF "reason" \in DOMAIN inv.data
                        THEN notifications[u][k].message =
                                Str("Your booking has been cancelled. "
                                    \o inv.data.reason.v)
                        ELSE notifications[u][k].message =
                                Str("Your booking has been cancelled. ")

\* The list of a client holds the records of two booking.cancelled events:
\* the first gave no reason, the second the reason "ill".
C16_Witness ==
    \E u \in ClientIds :
        /\ u \in DOMAIN notifications
        /\ DeletesOf(u) = 0
        /\ Len(notifications[u]) = 2
        /\ invocations[AppendsOf(u)[1].inv].name = "booking.cancelled"
        /\ invocations[AppendsOf(u)[1].inv].data = WithoutReason(u)
        /\ invocations[AppendsOf(u)[2].inv].name = "booking.cancelled"
        /\ invocations[AppendsOf(u)[2].inv].data = WellFormed("booking.cancelled", u)
        /\ notifications[u][1].message = Str("Your booking has been cancelled. ")
        /\ notifications[u][2].message = Str("Your booking has been cancelled. ill")

\* C17: an event published under a name that is not one of the seven
\* subscribed is dropped: its delivery raises nothing and changes nothing (no
\* invocation is added, so no handler runs, no resolver call is made and no
\* email is sent; the store, the queue of continuations and the clock stay
\* as they are), and so every event and every continuation that could be
\* handled before it can be handled after it.
C17_UnsubscribedEventIsDropped ==
    /\ \A channel \in UnsubscribedChannels : ListenerOf(channel) = "none"
    /\ ENABLED publishUnsubscribed
    /\ ~ENABLED (publishUnsubscribed /\ vars' # vars)

\* An event can be published on an unsubscribed channel while a handler is
\* suspended on its user lookup; a subscribed event can still be delivered
\* and the suspended handler can still resume.
C17_Witness ==
    /\ ENABLED publishUnsubscribed
    /\ ENABLED handleBookingCancelled
    /\ ENABLED getUserContactReturns
    /\ Len(invocations) = 1
    /\ invocations[1].pc = "awaitUser"

\* C18: GET /api/notifications without user_id (absent, or empty) answers
\* 400 with the code MISSING_USER_ID; with the user_id of a user that has no
\* entries it answers 200 with success and an empty list, and the store is
\* afterwards what it was: no list has been created for that user.
C18_ListOfUnknownUserIsEmpty ==
    /\ \A userId \in {Undefined, Str("")} :
            LET out == listNotifications(notifications, userId)
            IN  /\ out.res.status = 400
                /\ out.res.success = FALSE
                /\ out.res.code = "MISSING_USER_ID"
                /\ out.store = notifications
    /\ \A userId \in ClientIds \cup {Str("nobody")} :
            GetOrEmpty(notifications, userId) = <<>> =>
                LET out == listNotifications(notifications, userId)
                IN  /\ out.res = [status |-> 200, success |-> TRUE, data |-> <<>>]
                    /\ out.store = notifications
                    /\ DOMAIN out.store = DOMAIN notifications

\* The store holds records of one client and no list of the other, whose
\* notifications are listed.
C18_Witness ==
    /\ Str("u1") \in DOMAIN notifications
    /\ Len(notifications[Str("u1")]) >= 2
    /\ Str("u2") \notin DOMAIN notifications
    /\ listNotifications(notifications, Str("u2")).res.data = <<>>
    /\ ENABLED GetNotifications

\* The ids of the records in the store, whichever list they are in.
StoredIds ==
    UNION {{notifications[u][k].id : k \in 1..Len(notifications[u])} :
                u \in DOMAIN notifications}

\* C19: each of the four API operations, called without user_id (absent, or
\* empty), answers 400 with the code MISSING_USER_ID and leaves the store as
\* it is, whatever the notification id given: one that is in a user's list,
\* one that is in the list events without client_id were stored under, or
\* one that is in no list.
C19_MissingUserIdAnswers400 ==
    \A userId \in {Undefined, Str("")} :
        /\ listNotifications(notifications, userId) =
                [store |-> notifications, res |-> MissingUserId]
        /\ unreadCount(notifications, userId) =
                [store |-> notifications, res |-> MissingUserId]
        /\ \A id \in PathIds \cup StoredIds :
                /\ markRead(notifications, userId, id, now) =
                        [store |-> notifications, res |-> MissingUserId]
                /\ deleteNotification(notifications, userId, id) =
                        [store |-> notifications, res |-> MissingUserId]
        /\ MissingUserId.status = 400
        /\ MissingUserId.code = "MISSING_USER_ID"

\* The store holds a record of a client, and a record stored for an event
\* without client_id under the key undefined; mark-read and delete are
\* called without user_id and with the id of those records.
C19_Witness ==
    \E id \in PathIds :
        /\ Undefined \in DOMAIN notifications
        /\ Str("u1") \in DOMAIN notifications
        /\ \E k \in 1..Len(notifications[Undefined]) :
                notifications[Undefined][k].id = id
        /\ \E k \in 1..Len(notifications[Str("u1")]) :
                notifications[Str("u1")][k].id = id
        /\ deleteNotification(notifications, Undefined, id).res.status = 400
        /\ markRead(notifications, Undefined, id, now).res.status = 400
        /\ ENABLED DeleteNotification

\* record with its read_at left out of the comparison
ButReadAt(record) ==
    [record EXCEPT !.read_at = Null]

\* after holds the lists of before, with the same records in the same
\* order, read_at apart.
SameRecordsInOrder(before, after) ==
    /\ DOMAIN after = DOMAIN before
    /\ \A u \in DOMAIN before :
            /\ Len(after[u]) = Len(before[u])
            /\ \A k \in 1..Len(before[u]) :
                    ButReadAt(after[u][k]) = ButReadAt(before[u][k])

\* after is before with at most one record taken out of one list.
NothingAdded(before, after) ==
    /\ DOMAIN after = DOMAIN before
    /\ \/ after = before
       \/ \E u \in DOMAIN before :
            /\ \E k \in 1..Len(before[u]) : after[u] = RemoveAt(before[u], k)
            /\ \A v \in DOMAIN before \ {u} : after[v] = before[v]

\* C20: every record in the store was put there by the storeNotification
\* call of a handler; of the API operations, list and unread-count leave the
\* store as it is, mark-read leaves the records of every list and their
\* order as they are and changes nothing but read_at, and delete only takes
\* a record out: no API operation adds a record.
C20_OnlyHandlersCreateRecords ==
    /\ \A u \in DOMAIN notifications :
            \A k \in 1..Len(notifications[u]) :
                \E j \in 1..Len(appendLog) :
                    /\ appendLog[j].userId = u
                    /\ StoredBy(notifications[u][k], appendLog[j])
    /\ \A userId \in QueryUserIds \cup {Str("")} :
            /\ listNotifications(notifications, userId).store = notifications
            /\ unreadCount(notifications, userId).store = notifications
            /\ \A id \in PathIds :
                    /\ SameRecordsInOrder(notifications,
                            markRead(notifications, userId, id, now).store)
                    /\ NothingAdded(notifications,
                            deleteNotification(notifications, userId, id).store)

\* The first of the three records of a client has been marked read, the
\* others not; the list is still in the order of the handlers' appends.
C20_Witness ==
    \E u \in ClientIds :
        /\ u \in DOMAIN notifications
        /\ DeletesOf(u) = 0
        /\ Len(notifications[u]) = 3
        /\ notifications[u][1].read_at # Null
        /\ notifications[u][2].read_at = Null
        /\ notifications[u][3].read_at = Null
        /\ notifications[u][1].id # notifications[u][2].id
        /\ \A k \in 1..3 : StoredBy(notifications[u][k], AppendsOf(u)[k])

\* Drafts a caller may hand to storeNotification: those of the handlers, a
\* draft without any field, and drafts that carry fields of their own under
\* the names storeNotification fills in.
Drafts ==
    {handleBookingCreatedNotification(WellFormed("booking.created", Str("u1"))),
     handleMilestoneReachedNotification(WithoutClientId("milestone.reached")),
     <<>>,
     [type |-> Str("test"), read_at |-> Date(0)],
     [type |-> Str("test"), id |-> Str("mine"), created_at |-> Str("then")]}

\* C21: storeNotification, for any user, draft and reachable store, creates
\* the user's list if there is none, puts the new record at the end of the
\* list and leaves the records before it and every other list alone; the
\* record has every field of the draft as given (but read_at and created_at,
\* should the draft carry them), an id (the clock reading, unless the draft
\* brings one), read_at = null and the created_at of the call.
C21_AppendAddsOneRecordAtTheEnd ==
    \A userId \in ClientIds \cup {Str("nobody"), Undefined} :
        \A draft \in Drafts :
            LET out == storeNotification(notifications, userId, draft, now)
                before == GetOrEmpty(notifications, userId)
                record == out[userId][Len(before) + 1]
            IN  /\ DOMAIN out = DOMAIN notifications \cup {userId}
                /\ \A v \in DOMAIN notifications \ {userId} : out[v] = notifications[v]
                /\ Len(out[userId]) = Len(before) + 1
                /\ SubSeq(out[userId], 1, Len(before)) = before
                /\ DOMAIN record = DOMAIN draft \cup {"id", "read_at", "created_at"}
                /\ \A f \in DOMAIN draft \ {"read_at", "created_at"} :
                        record[f] = draft[f]
                /\ "id" \notin DOMAIN draft => record.id = Str(ToString(now))
                /\ record.read_at = Null
                /\ record.created_at = Date(now)

\* One client has a list of two records, one of them read, and the other
\* client has no list: an append for either is about to be made.
C21_Witness ==
    /\ Str("u1") \in DOMAIN notifications
    /\ Len(notifications[Str("u1")]) = 2
    /\ notifications[Str("u1")][1].read_at # Null
    /\ Str("u2") \notin DOMAIN notifications
    /\ microtasks # <<>>
    /\ ENABLED sendEmailResolves

\* C22: the value the call of storeNotification returns to the handler is
\* the record the call stored, the last entry of the user's list after it.
C22_AppendReturnsTheStoredRecord ==
    microtasks # <<>> =>
        LET inv == invocations[Head(microtasks)]
            userId == Field(inv.data, "client_id")
            out == storeNotification(notifications, userId, NotificationOf(inv), now)
        IN  storeNotificationResult(notifications, userId, NotificationOf(inv), now)
                = out[userId][Len(out[userId])]

\* The call with the given remote answer neither raises nor leaves the rule:
\* null for an answer that is a failure (a timeout, a connection failure, a
\* 4xx or 5xx status, a 2xx response without a body), the data field of the
\* body for any other.
ReturnsDataOrNull(response) ==
    /\ TryRequest(response, Null).completion = "return"
    /\ TryRequest(response, Null).value =
            IF response.kind \in RemoteFailures THEN Null ELSE response.data

\* C23: getUserContact, getProgramDetails and getBookingDetails never raise
\* to their caller: whatever the remote call ends in, they return, null when
\* the call failed and the data field of the response body when it did not;
\* and what a resumed handler holds as client and program is such a value.
C23_LookupsReturnDataOrNull ==
    /\ \A id \in ClientIds \cup {Undefined} :
            \A response \in UserResponses(id) :
                /\ ReturnsDataOrNull(response)
                /\ getUserContact(response) = TryRequest(response, Null).value
    /\ \A response \in ProgramResponses(Str("p1")) :
            /\ ReturnsDataOrNull(response)
            /\ getProgramDetails(response) = TryRequest(response, Null).value
    /\ \A response \in BookingResponses(Str("b1")) :
            /\ ReturnsDataOrNull(response)
            /\ getBookingDetails(response) = TryRequest(response, Null).value
    /\ \A i \in 1..Len(invocations) :
            /\ invocations[i].userLookups = 1 /\ invocations[i].pc # "awaitUser" =>
                    \/ invocations[i].client = Null
                    \/ \E response \in
                            UserResponses(Field(invocations[i].data, "client_id")) :
                                /\ response.kind = "http2xx"
                                /\ invocations[i].client = response.data
            /\ invocations[i].programLookups = 1 /\ invocations[i].pc # "awaitProgram" =>
                    \/ invocations[i].program = Null
                    \/ \E response \in
                            ProgramResponses(Field(invocations[i].data, "program_id")) :
                                /\ response.kind = "http2xx"
                                /\ invocations[i].program = response.data

\* One handler got null from a failed user lookup and aborted; another got
\* the user from its lookup and null from its failed program lookup.
C23_Witness ==
    \E i, j \in 1..Len(invocations) :
        /\ invocations[i].pc = "aborted"
        /\ invocations[i].client = Null
        /\ invocations[j].name = "program.assigned"
        /\ invocations[j].client \notin {Null, Undefined}
        /\ invocations[j].programLookups = 1
        /\ invocations[j].pc = "done"
        /\ invocations[j].program = Null

\* The clients of the events delivered so far, in order of arrival.
EventClients ==
    [k \in 1..Len(invocations) |-> Field(invocations[k].data, "client_id")]

\* C24: getUsersBatch, called for the clients of the events delivered so
\* far, never raises and never returns an absent value: whatever the batch
\* call ends in, it returns a list, the empty list when the call failed and
\* the list of users of the response when it did not.
C24_BatchReturnsAList ==
    \A response \in BatchResponses(EventClients) :
        /\ invocations # <<>> => TryRequest(response, Arr(<<>>)).completion = "return"
        /\ invocations # <<>> => getUsersBatch(response).t = "array"
        /\ response.kind \in RemoteFailures => getUsersBatch(response) = Arr(<<>>)
        /\ response.kind = "http2xx" => getUsersBatch(response) = response.data

\* The store with no list but that of userId.
OnlyListOf(store, userId) ==
    [v \in DOMAIN store \cap {userId} |-> store[v]]

\* The ids of the records of the list of userId.
IdsOf(store, userId) ==
    {GetOrEmpty(store, userId)[k].id : k \in 1..Len(GetOrEmpty(store, userId))}

\* C25: an operation called with user_id u never touches the list of
\* another user: mark-read and delete leave every list but that of u as it
\* is, and answer NOT_FOUND with the store unchanged when the id is in the
\* list of another user and not in that of u; what list and unread-count
\* answer for u is what they answer on a store holding the list of u alone.
C25_OperationsStayWithinTheUser ==
    \A u \in ClientIds \cup {Str("nobody")} :
        /\ \A id \in PathIds :
                /\ \A v \in DOMAIN notifications \ {u} :
                        /\ markRead(notifications, u, id, now).store[v] = notifications[v]
                        /\ deleteNotification(notifications, u, id).store[v] =
                                notifications[v]
                /\ id \notin IdsOf(notifications, u) =>
                        /\ markRead(notifications, u, id, now) =
                                [store |-> notifications, res |-> NotFound]
                        /\ deleteNotification(notifications, u, id) =
                                [store |-> notifications, res |-> NotFound]
        /\ listNotifications(notifications, u).res =
                listNotifications(OnlyListOf(notifications, u), u).res
        /\ unreadCount(notifications, u).res =
                unreadCount(OnlyListOf(notifications, u), u).res

\* Each of the two clients has a record whose id is in the list of that
\* client only; mark-read and delete of the one client are called with the
\* id of the record of the other.
C25_Witness ==
    \E id \in PathIds :
        /\ DOMAIN notifications = ClientIds
        /\ id \in IdsOf(notifications, Str("u2"))
        /\ id \notin IdsOf(notifications, Str("u1"))
        /\ notifications[Str("u1")] # <<>>
        /\ markRead(notifications, Str("u1"), id, now).res = NotFound
        /\ deleteNotification(notifications, Str("u1"), id).res = NotFound
        /\ ENABLED PutRead

\* C26: GET /api/notifications/{userId}, the user id given as a path
\* segment and no query parameter, answers 200 with the notifications of
\* that user.
C26_PathUserIdListsNotifications ==
    \A u \in ClientIds :
        GetOrEmpty(notifications, u) # <<>> =>
            Router(notifications, "GET", <<u>>, Undefined, now).res =
                Ok(notifications[u])

\* The resolver calls a handler of the given event makes before its email.
LookupsBeforeEmail(name) ==
    [user |-> IF name \in UserLookupHandlers THEN 1 ELSE 0,
     program |-> IF name = "program.assigned" THEN 1 ELSE 0]

\* C27: in every handler invocation the email is sent at most once, only
\* when every resolver call of the invocation has been issued and has
\* returned, and before the append: the step that appends finds the
\* invocation with its one email sent and waiting on it; an invocation that
\* has sent its email makes no resolver call any more and is either queued
\* for its append or has appended; an aborted one has sent no email.
C27_EmailThenAppend ==
    [][\A i \in 1..Len(invocations) :
          LET before == invocations[i]
              after == invocations'[i]
          IN  /\ after.emails \in {0, 1}
              /\ (before.emails = 0 /\ after.emails = 1) =>
                    /\ before.pc \in {"awaitUser", "awaitProgram"}
                    /\ after.pc = "awaitEmail"
                    /\ after.userLookups = LookupsBeforeEmail(after.name).user
                    /\ after.programLookups = LookupsBeforeEmail(after.name).program
                    /\ after.logPos = 0
              /\ before.emails = 1 =>
                    /\ after.emails = 1
                    /\ after.userLookups = before.userLookups
                    /\ after.programLookups = before.programLookups
              /\ (before.logPos = 0 /\ after.logPos > 0) =>
                    /\ before.emails = 1
                    /\ before.pc = "awaitEmail"
              /\ after.emails = 1 =>
                    \/ after.pc = "done" /\ after.logPos > 0
                    \/ /\ after.pc = "awaitEmail"
                       /\ \E k \in 1..Len(microtasks') : microtasks'[k] = i
              /\ after.pc = "aborted" => after.emails = 0 /\ after.logPos = 0
      ]_vars

\* A program.assigned event has been stored after its two lookups and its
\* one email; another event was aborted and sent none.
C27_Witness ==
    \E i, j \in 1..Len(invocations) :
        /\ invocations[i].name = "program.assigned"
        /\ invocations[i].pc = "done"
        /\ invocations[i].userLookups = 1
        /\ invocations[i].programLookups = 1
        /\ invocations[i].emails = 1
        /\ invocations[i].logPos > 0
        /\ invocations[j].pc = "aborted"
        /\ invocations[j].emails = 0

\* C28: within one handler invocation each resolver operation is issued at
\* most once: one user lookup by the five handlers that make one, one
\* program lookup by program.assigned after it, none by the others; when a
\* lookup returns, the invocation goes on or aborts without issuing it
\* again, and an aborted invocation does nothing any more.
C28_NoLookupIsRetried ==
    [][\A i \in 1..Len(invocations) :
          LET before == invocations[i]
              after == invocations'[i]
          IN  /\ after.userLookups <= LookupsBeforeEmail(after.name).user
              /\ after.programLookups <= LookupsBeforeEmail(after.name).program
              /\ after.userLookups >= before.userLookups
              /\ after.programLookups >= before.programLookups
              /\ (before.pc = "awaitUser" /\ after # before) =>
                    /\ after.userLookups = 1
                    /\ IF Falsy(after.client)
                       THEN after.pc = "aborted" /\ after.programLookups = 0
                       ELSE after.pc \in {"awaitProgram", "awaitEmail"}
              /\ (before.pc = "awaitProgram" /\ after # before) =>
                    /\ after.programLookups = 1
                    /\ after.userLookups = 1
                    /\ after.pc = "awaitEmail"
              /\ before.pc = "aborted" => after = before
      ]_vars

\* The user lookup of one event failed and the event was given up after
\* that one call; the program lookup of another failed after its one call
\* and the event was stored.
C28_Witness ==
    \E i, j \in 1..Len(invocations) :
        /\ invocations[i].pc = "aborted"
        /\ invocations[i].client = Null
        /\ invocations[i].userLookups = 1
        /\ invocations[j].name = "program.assigned"
        /\ invocations[j].program = Null
        /\ invocations[j].programLookups = 1
        /\ invocations[j].userLookups = 1
        /\ invocations[j].pc = "done"
        /\ microtasks = <<>>

\* Invocation i exists and has finished.
Finished(i) ==
    /\ i <= Len(invocations)
    /\ invocations[i].pc \in {"done", "aborted"}

\* C29: when every pending resolver call eventually returns, every handler
\* invocation eventually finishes; and an invocation that has finished has
\* either aborted, having appended nothing, or made exactly one
\* storeNotification call.
C29_EveryInvocationFinishes ==
    /\ \A i \in 1..MaxEvents : (i <= Len(invocations)) ~> Finished(i)
    /\ [](\A i \in 1..Len(invocations) :
            /\ invocations[i].pc = "aborted" =>
                    /\ AppendsBy(appendLog, i) = 0
                    /\ invocations[i].logPos = 0
            /\ invocations[i].pc = "done" =>
                    /\ AppendsBy(appendLog, i) = 1
                    /\ appendLog[invocations[i].logPos].inv = i)

\* Both ends have been reached: one invocation has aborted and one has
\* appended its notification, after two lookups, and nothing is pending.
C29_Witness ==
    /\ Len(invocations) = MaxEvents
    /\ \A i \in 1..Len(invocations) : Finished(i)
    /\ \E i \in 1..Len(invocations) : invocations[i].pc = "aborted"
    /\ \E i \in 1..Len(invocations) :
            /\ invocations[i].pc = "done"
            /\ invocations[i].programLookups = 1
    /\ microtasks = <<>>

\* C30: no step of the service, be it the append of a handler, a mark-read
\* or a delete, for whatever user, makes a read record unread: in every
\* list, a step that removes nothing leaves every record that had a read_at
\* with one, at its place, and a step that removes a record leaves the other
\* records of the list as they were.
C30_ReadRecordsStayRead ==
    [][\A u \in DOMAIN notifications :
          /\ u \in DOMAIN notifications'
          /\ IF Len(notifications'[u]) >= Len(notifications[u])
             THEN \A k \in 1..Len(notifications[u]) :
                      /\ ButReadAt(notifications'[u][k]) = ButReadAt(notifications[u][k])
                      /\ notifications[u][k].read_at # Null =>
                              notifications'[u][k].read_at # Null
             ELSE \E k \in 1..Len(notifications[u]) :
                      notifications'[u] = RemoveAt(notifications[u], k)
      ]_vars

\* A record was marked read; since then another record was appended to the
\* list and one was deleted from it: the record is still read.
C30_Witness ==
    \E u \in ClientIds :
        /\ u \in DOMAIN notifications
        /\ Len(AppendsOf(u)) = 3
        /\ DeletesOf(u) = 1
        /\ Len(notifications[u]) = 2
        /\ notifications[u][1].read_at = Date(0)
        /\ notifications[u][2].created_at = Date(1)
        /\ notifications[u][2].read_at = Null

\* C31: every notification a handler has stored for an event is returned by
\* GET /api/notifications with the client_id of the event as user_id (as
\* long as nothing was deleted from that list): no record lies under a key
\* no request can name.
C31_StoredRecordsCanBeListed ==
    \A i \in 1..Len(invocations) :
        LET c == Field(invocations[i].data, "client_id")
        IN  (invocations[i].pc = "done" /\ DeletesOf(c) = 0) =>
                LET res == listNotifications(notifications, c).res
                IN  /\ res.status = 200
                    /\ \E k \in 1..Len(res.data) :
                            StoredBy(res.data[k], appendLog[invocations[i].logPos])

\* The positions of the records of list that carry the id, in list order.
PositionsOf(list, id) ==
    {k \in 1..Len(list) : list[k].id = id}

\* The least member of a non-empty set of positions.
Earliest(positions) ==
    CHOOSE k \in positions : \A j \in positions : k <= j

\* C32: when several records of a user's list carry the same id, mark-read
\* and delete called with that id act on the earliest inserted of them and
\* on no other: mark-read sets the read_at of that record and leaves every
\* other record of the list, the later ones with the id included, as it
\* was; delete removes that record and leaves the others in the list.
C32_DuplicateIdActsOnTheEarliest ==
    \A u \in ClientIds, id \in PathIds :
        LET list == GetOrEmpty(notifications, u)
            same == PositionsOf(list, id)
        IN  Cardinality(same) >= 2 =>
                LET first == Earliest(same)
                    marked == markRead(notifications, u, id, now)
                    deleted == deleteNotification(notifications, u, id)
                IN  /\ marked.res.status = 200
                    /\ Len(marked.store[u]) = Len(list)
                    /\ marked.store[u][first] = [list[first] EXCEPT !.read_at = Date(now)]
                    /\ \A k \in 1..Len(list) :
                            k # first => marked.store[u][k] = list[k]
                    /\ deleted.res.status = 200
                    /\ deleted.store[u] = RemoveAt(list, first)
                    /\ Cardinality(PositionsOf(deleted.store[u], id)) =
                            Cardinality(same) - 1

\* The list of a client holds two unread records with one id, of two
\* different events, and a third record.
C32_Witness ==
    \E u \in ClientIds :
        /\ u \in DOMAIN notifications
        /\ Len(notifications[u]) = 3
        /\ notifications[u][1].id = notifications[u][2].id
        /\ notifications[u][1].type # notifications[u][2].type
        /\ notifications[u][1].read_at = Null
        /\ notifications[u][2].read_at = Null
        /\ ENABLED PutRead
        /\ ENABLED DeleteNotification

\* C33: of two events whose handlers call no resolver (booking.created,
\* booking.cancelled), the one that arrived first makes its storeNotification
\* call first: when the later one has appended, the earlier one has, before
\* it; so the records of two such events of one user lie in the user's list
\* in the order of arrival.
C33_DirectHandlersAppendInArrivalOrder ==
    \A i, j \in 1..Len(invocations) :
        ( /\ i < j
          /\ invocations[i].name \in DirectHandlers
          /\ invocations[j].name \in DirectHandlers
          /\ invocations[j].logPos > 0 ) =>
                /\ invocations[i].logPos > 0
                /\ invocations[i].logPos < invocations[j].logPos
                /\ LET u == Field(invocations[i].data, "client_id")
                   IN  ( /\ u = Field(invocations[j].data, "client_id")
                         /\ DeletesOf(u) = 0 ) =>
                            \E k, l \in 1..Len(notifications[u]) :
                                /\ k < l
                                /\ AppendsOf(u)[k].inv = i
                                /\ AppendsOf(u)[l].inv = j
                                /\ StoredBy(notifications[u][k], AppendsOf(u)[k])
                                /\ StoredBy(notifications[u][l], AppendsOf(u)[l])

\* Three booking events of one client arrived, a cancellation between two
\* creations; the list holds their records in that order.
C33_Witness ==
    \E u \in ClientIds :
        /\ Len(invocations) = 3
        /\ \A i \in 1..3 :
                /\ Field(invocations[i].data, "client_id") = u
                /\ invocations[i].logPos = i
        /\ invocations[1].name = "booking.created"
        /\ invocations[2].name = "booking.cancelled"
        /\ invocations[3].name = "booking.created"
        /\ DeletesOf(u) = 0
        /\ Len(notifications[u]) = 3
        /\ notifications[u][1].type = Str("booking_confirmation")
        /\ notifications[u][2].type = Str("booking_cancellation")
        /\ notifications[u][3].type = Str("booking_confirmation")

\* C34: a program lookup is issued only by a program.assigned invocation,
\* at the step its user lookup returns, and only when that returned a user;
\* an invocation whose user lookup returned absent has made no program
\* lookup and never makes one.
C34_ProgramLookupOnlyAfterTheUser ==
    [][\A i \in 1..Len(invocations) :
          LET before == invocations[i]
              after == invocations'[i]
          IN  /\ (before.programLookups = 0 /\ after.programLookups > 0) =>
                    /\ before.name = "program.assigned"
                    /\ before.pc = "awaitUser"
                    /\ before.userLookups = 1
                    /\ ~Falsy(after.client)
                    /\ after.pc = "awaitProgram"
              /\ (after.userLookups = 1 /\ after.pc # "awaitUser"
                        /\ Falsy(after.client)) =>
                    /\ after.programLookups = 0
                    /\ after.pc = "aborted"
              /\ after.pc = "awaitProgram" =>
                    /\ after.name = "program.assigned"
                    /\ ~Falsy(after.client)
      ]_vars

\* Of two program.assigned events one got no user and was given up without
\* a program lookup; the other got its user and is waiting for the program.
C34_Witness ==
    \E i, j \in 1..Len(invocations) :
        /\ invocations[i].name = "program.assigned"
        /\ invocations[i].pc = "aborted"
        /\ invocations[i].userLookups = 1
        /\ invocations[i].programLookups = 0
        /\ invocations[j].name = "program.assigned"
        /\ invocations[j].pc = "awaitProgram"
        /\ invocations[j].programLookups = 1
        /\ ~Falsy(invocations[j].client)

\* C35: a mark-read or delete served while a handler is suspended on a
\* resolver call changes nothing of the suspended invocation, and the
\* append the handler makes once resumed is as ever: its notification, with
\* read_at = null and the clock reading of the append, is put behind the
\* records the list of its client holds at that moment, whatever was marked
\* or deleted in between.
C35_AppendAfterSuspensionIsUnaffected ==
    [][/\ (notifications' # notifications /\ appendLog' = appendLog) =>
            /\ invocations' = invocations
            /\ microtasks' = microtasks
       /\ \A i \in 1..Len(invocations) :
            ( /\ invocations[i].name \in UserLookupHandlers
              /\ invocations[i].logPos = 0
              /\ invocations'[i].logPos > 0 ) =>
                LET u == Field(invocations[i].data, "client_id")
                    list == GetOrEmpty(notifications, u)
                    record == notifications'[u][Len(list) + 1]
                IN  /\ Len(notifications'[u]) = Len(list) + 1
                    /\ SubSeq(notifications'[u], 1, Len(list)) = list
                    /\ record.read_at = Null
                    /\ record.id = Str(ToString(now))
                    /\ record.created_at = Date(now)
                    /\ \A f \in DOMAIN NotificationOf(invocations[i]) :
                            record[f] = NotificationOf(invocations[i])[f]
      ]_vars

\* An event with a user lookup arrived before a booking event of the same
\* client; the booking's record was stored and marked read at clock reading
\* 0, while the first handler was suspended; resumed at 1, that handler has
\* put its unread record behind the read one.
C35_Witness ==
    \E u \in ClientIds :
        /\ Len(invocations) = 2
        /\ invocations[1].name \in UserLookupHandlers
        /\ invocations[2].name \in DirectHandlers
        /\ Field(invocations[1].data, "client_id") = u
        /\ Field(invocations[2].data, "client_id") = u
        /\ invocations[1].logPos = 2
        /\ invocations[2].logPos = 1
        /\ DeletesOf(u) = 0
        /\ Len(notifications[u]) = 2
        /\ notifications[u][1].read_at = Date(0)
        /\ notifications[u][2].created_at = Date(1)
        /\ notifications[u][2].read_at = Null

====
